---- MODULE Spec2Model ----
(***************************************************************************)
(* Model of the two signing utilities of the repository: ichi-sign         *)
(* (src/ichi-sign.c lines 1-428) and kurv (src/ichi-sign.c lines 430-968). *)
(* Bytes are integers 0..255, buffers are sequences of bytes, a C offset o *)
(* into a buffer b is the element b[o + 1].                                *)
(***************************************************************************)
EXTENDS Integers, Sequences, FiniteSets, TLC

\* ------------------------------------------------------------------------
\* Bounds of the model
\* ------------------------------------------------------------------------
MaxMsgLen == 1
MaxEntries == 2
MaxReads == 4

\* ------------------------------------------------------------------------
\* Program constants
\* ------------------------------------------------------------------------
B64_KEY_SIZE == 44
B64_SIG_SIZE == 88
KEY_SIZE == 32
SIG_SIZE == 64

NL == 10

SIG_ARMOR_TOP ==
    <<10, 45, 45, 45, 45, 66, 69, 71, 73, 78, 32, 73, 67, 72, 73, 32, 83, 73,
      71, 78, 65, 84, 85, 82, 69, 45, 45, 45, 45, 10>>
SIG_ARMOR_END ==
    <<10, 45, 45, 45, 45, 32, 69, 78, 68, 32, 73, 67, 72, 73, 32, 83, 73, 71,
      78, 65, 84, 85, 82, 69, 32, 45, 45, 45, 45, 10>>
SIG_START ==
    <<10, 45, 45, 45, 45, 66, 69, 71, 73, 78, 32, 75, 85, 82, 86, 32, 83, 73,
      71, 78, 65, 84, 85, 82, 69, 45, 45, 45, 45, 10>>
SIG_END ==
    <<10, 45, 45, 45, 45, 69, 78, 68, 32, 75, 85, 82, 86, 32, 83, 73, 71, 78,
      65, 84, 85, 82, 69, 45, 45, 45, 45, 10>>

SIG_START_LEN == Len(SIG_START)
SIG_END_LEN == Len(SIG_END)

\* ".sign.pub" and ".pub"
SUFFIX_ICHI == <<46, 115, 105, 103, 110, 46, 112, 117, 98>>
SUFFIX_KURV == <<46, 112, 117, 98>>

\* ------------------------------------------------------------------------
\* Small helpers on buffers
\* ------------------------------------------------------------------------
\* a function on 1..n as the sequence (tuple) of its values
AsSeq(f) == f \o <<>>

Zeros(n) == AsSeq([i \in 1..n |-> 0])

\* the bytes of b at C offsets off .. off+n-1
Slice(b, off, n) == SubSeq(b, off + 1, off + n)

\* the C offsets off .. off+n-1
Range(off, n) == off..(off + n - 1)

Min(a, b) == IF a < b THEN a ELSE b

\* ------------------------------------------------------------------------
\* The text encoding capability (base64/base64.h): standard base64 with
\* '=' padding.
\* ------------------------------------------------------------------------
B64Alphabet ==
    <<65, 66, 67, 68, 69, 70, 71, 72, 73, 74, 75, 76, 77, 78, 79, 80, 81, 82,
      83, 84, 85, 86, 87, 88, 89, 90, 97, 98, 99, 100, 101, 102, 103, 104,
      105, 106, 107, 108, 109, 110, 111, 112, 113, 114, 115, 116, 117, 118,
      119, 120, 121, 122, 48, 49, 50, 51, 52, 53, 54, 55, 56, 57, 43, 47>>

B64Pad == 61

\* value of an alphabet character, -1 for every other byte (and for a
\* byte of a buffer that was never written)
B64Val ==
    [c \in -1..255 |->
        IF \E k \in 1..64 : B64Alphabet[k] = c
        THEN (CHOOSE k \in 1..64 : B64Alphabet[k] = c) - 1
        ELSE -1]

Pow64 == <<1, 64, 4096, 262144>>
Pow256 == <<1, 256, 65536>>

b64_encoded_size(length) == ((length + 2) \div 3) * 4

\* number of trailing '=' (at most two are looked at)
B64PadCount(input, size) ==
    IF size >= 1 /\ input[size] = B64Pad
    THEN IF size >= 2 /\ input[size - 1] = B64Pad THEN 2 ELSE 1
    ELSE 0

b64_decoded_size(input, size) == (size \div 4) * 3 - B64PadCount(input, size)

\* 0 when input is well-formed, -1 otherwise
b64_validate(input, size) ==
    IF /\ size % 4 = 0
       /\ \A i \in 1..size :
            \/ B64Val[input[i]] >= 0
            \/ (input[i] = B64Pad /\ i > size - B64PadCount(input, size))
    THEN 0 ELSE -1

b64_encode(input, input_size) ==
    AsSeq([j \in 1..b64_encoded_size(input_size) |->
        LET g == (j - 1) \div 4
            k == (j - 1) % 4
            avail == Min(3, input_size - 3 * g)
            byte(o) == IF 3 * g + o <= input_size THEN input[3 * g + o] ELSE 0
            v == byte(1) * 65536 + byte(2) * 256 + byte(3)
        IN  IF k > avail THEN B64Pad
            ELSE B64Alphabet[((v \div Pow64[4 - k]) % 64) + 1]])

b64_decode(input, input_size) ==
    AsSeq([i \in 1..b64_decoded_size(input, input_size) |->
        LET g == (i - 1) \div 3
            k == (i - 1) % 3
            sx(o) == IF input[4 * g + o] = B64Pad THEN 0
                     ELSE B64Val[input[4 * g + o]]
            v == sx(1) * 262144 + sx(2) * 4096 + sx(3) * 64 + sx(4)
        IN  (v \div Pow256[3 - k]) % 256])

\* ------------------------------------------------------------------------
\* The signature capability (monocypher): an opaque deterministic scheme.
\* The signature of a message under a key pair is a function of the public
\* key and of the message; crypto_check accepts exactly that value.
\* ------------------------------------------------------------------------
RECURSIVE Digest(_)
Digest(msg) ==
    IF msg = <<>> THEN 7
    ELSE (Digest(SubSeq(msg, 1, Len(msg) - 1)) * 31 + msg[Len(msg)] + 1) % 251

crypto_sign_public_key(sk) ==
    AsSeq([i \in 1..KEY_SIZE |-> (sk[i] * 3 + 1) % 256])

crypto_sign(sk, pk, msg) ==
    LET d == Digest(msg)
    IN  AsSeq([i \in 1..SIG_SIZE |->
                IF i <= KEY_SIZE THEN (pk[i] + d) % 256
                ELSE (pk[i - KEY_SIZE] * 5 + d + i) % 256])

crypto_check(sig, pk, msg) ==
    IF sig = crypto_sign(<<>>, pk, msg) THEN 0 ELSE -1

\* ------------------------------------------------------------------------
\* Reading from a stream.  A file is [ok |-> it can be opened, data |-> its
\* bytes, rerr |-> reading it raises the stream's error flag].
\* ------------------------------------------------------------------------
\* a failed read: no buffer (no buffer of bytes has a negative element)
NULL == <<-1>>

File(data) == [ok |-> TRUE, data |-> data, rerr |-> FALSE]
NoFile == [ok |-> FALSE, data |-> <<>>, rerr |-> FALSE]
BadFile == [ok |-> TRUE, data |-> <<>>, rerr |-> TRUE]

\* what a buffer of n bytes holds after a read of n bytes was requested:
\* the bytes the stream had, the rest of the buffer as it was
ReadInto(buf, data, n) ==
    AsSeq([i \in 1..n |-> IF i <= Len(data) THEN data[i] ELSE buf[i]])

\* utils.h _read: non-zero unless exactly n bytes were read
_read(fp, n) == IF fp.rerr \/ Len(fp.data) < n THEN 1 ELSE 0

\* kurv read_exactly: -1 unless fread returned n
read_exactly(n, fp) == IF fp.rerr \/ Len(fp.data) < n THEN -1 ELSE 0

BUF_SIZE == 64 * 1024
READ_SIZE == 1024 * 4096

\* ichi fp_to_buf: the loop of fread(buf + total, 1, BUF_SIZE, fp)
RECURSIVE fp_to_buf_loop(_, _, _)
fp_to_buf_loop(fp, total, size) ==
    LET n == Min(BUF_SIZE, Len(fp.data) - total)
        t == total + n
    IN  IF fp.rerr THEN NULL
        ELSE IF n < BUF_SIZE THEN SubSeq(fp.data, 1, t)
        ELSE fp_to_buf_loop(fp, t, IF t + BUF_SIZE > size
                                   THEN size + BUF_SIZE ELSE size)

fp_to_buf(fp) == fp_to_buf_loop(fp, 0, BUF_SIZE)

\* kurv read_file: while (!feof(fp) && (n = fread(...)) > 0)
RECURSIVE read_file_loop(_, _, _, _)
read_file_loop(fp, total, size, r) ==
    LET n == Min(READ_SIZE, Len(fp.data) - total)
        t == total + n
    IN  IF fp.rerr THEN NULL
        ELSE IF n = 0 THEN SubSeq(fp.data, 1, total)
        ELSE IF n < READ_SIZE THEN SubSeq(fp.data, 1, t)
        ELSE read_file_loop(fp, t,
                            IF size <= t THEN size + (r + 1) * READ_SIZE
                            ELSE size,
                            IF size <= t THEN r + 1 ELSE r)

read_file(fp) == read_file_loop(fp, 0, READ_SIZE, 0)

\* ------------------------------------------------------------------------
\* Armor codec: decoding the joined envelope at the end of a buffer.
\* The result records the C offsets of buf the call reads.
\* ------------------------------------------------------------------------
TOP_SZ == Len(SIG_ARMOR_TOP)
SIG_SZ == B64_SIG_SIZE + 1
END_SZ == Len(SIG_ARMOR_END)
TOTAL_SZ == TOP_SZ + SIG_SZ + END_SZ

\* a byte of buf at C offset off; outside the buffer the value is not
\* the program's to know
At(buf, off) == IF off \in 0..(Len(buf) - 1) THEN buf[off + 1] ELSE -1

\* memcmp(buf + off, lit, n) == 0
MemEq(buf, off, lit, n) == \A i \in 1..n : At(buf, off + i - 1) = lit[i]

Reject(reads) ==
    [rv |-> -1, sig |-> <<>>, new_buf_size |-> -1, reads |-> reads]

\* sig_from_buf with the second half copied from SIG_PTR + 44, the
\* separator taken for a signature character
sig_from_buf_half(buf, buf_size) ==
    LET TOP_PTR == buf_size - TOTAL_SZ
        SIG_PTR == TOP_PTR + TOP_SZ
        END_PTR == SIG_PTR + SIG_SZ
        r1 == Range(TOP_PTR, TOP_SZ)
        r2 == r1 \cup Range(END_PTR, END_SZ)
        r3 == r2 \cup {SIG_PTR + 44}
        r4 == r3 \cup Range(SIG_PTR, 44) \cup Range(SIG_PTR + 44, 44)
        b64_sig == Slice(buf, SIG_PTR, 44) \o Slice(buf, SIG_PTR + 44, 44)
    IN  IF buf_size < TOTAL_SZ THEN Reject({})
        ELSE IF ~MemEq(buf, TOP_PTR, SIG_ARMOR_TOP, TOP_SZ) THEN Reject(r1)
        ELSE IF ~MemEq(buf, END_PTR, SIG_ARMOR_END, END_SZ) THEN Reject(r2)
        ELSE IF At(buf, SIG_PTR + 44) # NL THEN Reject(r3)
        ELSE IF \/ b64_validate(b64_sig, B64_SIG_SIZE) # 0
                \/ b64_decoded_size(b64_sig, B64_SIG_SIZE) # SIG_SIZE
             THEN Reject(r4)
        ELSE [rv |-> 0, sig |-> b64_decode(b64_sig, B64_SIG_SIZE),
              new_buf_size |-> buf_size - TOTAL_SZ, reads |-> r4]

\* sig_from_buf with the length tested against the envelope without its
\* separator byte
sig_from_buf_short(buf, buf_size) ==
    LET TOP_PTR == buf_size - TOTAL_SZ
        SIG_PTR == TOP_PTR + TOP_SZ
        END_PTR == SIG_PTR + SIG_SZ
        r1 == Range(TOP_PTR, TOP_SZ)
        r2 == r1 \cup Range(END_PTR, END_SZ)
        r3 == r2 \cup {SIG_PTR + 44}
        r4 == r3 \cup Range(SIG_PTR, 44) \cup Range(SIG_PTR + 45, 44)
        b64_sig == Slice(buf, SIG_PTR, 44) \o Slice(buf, SIG_PTR + 45, 44)
    IN  IF buf_size < TOP_SZ + B64_SIG_SIZE + END_SZ THEN Reject({})
        ELSE IF ~MemEq(buf, TOP_PTR, SIG_ARMOR_TOP, TOP_SZ) THEN Reject(r1)
        ELSE IF ~MemEq(buf, END_PTR, SIG_ARMOR_END, END_SZ) THEN Reject(r2)
        ELSE IF At(buf, SIG_PTR + 44) # NL THEN Reject(r3)
        ELSE IF \/ b64_validate(b64_sig, B64_SIG_SIZE) # 0
                \/ b64_decoded_size(b64_sig, B64_SIG_SIZE) # SIG_SIZE
             THEN Reject(r4)
        ELSE [rv |-> 0, sig |-> b64_decode(b64_sig, B64_SIG_SIZE),
              new_buf_size |-> buf_size - TOTAL_SZ, reads |-> r4]

\* sig_from_buf without the test of the separator byte
sig_from_buf_nosep(buf, buf_size) ==
    LET TOP_PTR == buf_size - TOTAL_SZ
        SIG_PTR == TOP_PTR + TOP_SZ
        END_PTR == SIG_PTR + SIG_SZ
        r1 == Range(TOP_PTR, TOP_SZ)
        r2 == r1 \cup Range(END_PTR, END_SZ)
        r4 == r2 \cup Range(SIG_PTR, 44) \cup Range(SIG_PTR + 45, 44)
        b64_sig == Slice(buf, SIG_PTR, 44) \o Slice(buf, SIG_PTR + 45, 44)
    IN  IF buf_size < TOTAL_SZ THEN Reject({})
        ELSE IF ~MemEq(buf, TOP_PTR, SIG_ARMOR_TOP, TOP_SZ) THEN Reject(r1)
        ELSE IF ~MemEq(buf, END_PTR, SIG_ARMOR_END, END_SZ) THEN Reject(r2)
        ELSE IF \/ b64_validate(b64_sig, B64_SIG_SIZE) # 0
                \/ b64_decoded_size(b64_sig, B64_SIG_SIZE) # SIG_SIZE
             THEN Reject(r4)
        ELSE [rv |-> 0, sig |-> b64_decode(b64_sig, B64_SIG_SIZE),
              new_buf_size |-> buf_size - TOTAL_SZ, reads |-> r4]

\* ichi sig_from_buf, lines 161-195
sig_from_buf(buf, buf_size) ==
    LET TOP_PTR == buf_size - TOTAL_SZ
        SIG_PTR == TOP_PTR + TOP_SZ
        END_PTR == SIG_PTR + SIG_SZ
        r1 == Range(TOP_PTR, TOP_SZ)
        r2 == r1 \cup Range(END_PTR, END_SZ)
        r3 == r2 \cup {SIG_PTR + 44}
        r4 == r3 \cup Range(SIG_PTR, 44) \cup Range(SIG_PTR + 45, 44)
        b64_sig == Slice(buf, SIG_PTR, 44) \o Slice(buf, SIG_PTR + 45, 44)
    IN  IF buf_size < TOTAL_SZ THEN Reject({})
        ELSE IF ~MemEq(buf, TOP_PTR, SIG_ARMOR_TOP, TOP_SZ) THEN Reject(r1)
        ELSE IF ~MemEq(buf, END_PTR, SIG_ARMOR_END, END_SZ) THEN Reject(r2)
        ELSE IF At(buf, SIG_PTR + 44) # NL THEN Reject(r3)
        ELSE IF \/ b64_validate(b64_sig, B64_SIG_SIZE) # 0
                \/ b64_decoded_size(b64_sig, B64_SIG_SIZE) # SIG_SIZE
             THEN Reject(r4)
        ELSE [rv |-> 0, sig |-> b64_decode(b64_sig, B64_SIG_SIZE),
              new_buf_size |-> buf_size - TOTAL_SZ, reads |-> r4]

\* kurv decode_exactly: -1, or 0 with the decoded bytes
decode_exactly(bufsize, b64, b64size) ==
    IF b64_validate(b64, b64size) # 0 \/ b64_decoded_size(b64, b64size) # bufsize
    THEN [rv |-> -1, buf |-> <<>>]
    ELSE [rv |-> 0, buf |-> b64_decode(b64, b64size)]

find_signature(buf, bufsize) ==
    LET start_size == SIG_START_LEN
        sig_size == B64_SIG_SIZE
        end_size == SIG_END_LEN
        total == start_size + sig_size + end_size
        size == bufsize
        r1 == Range(size - end_size, end_size)
        r2 == r1 \cup Range(size - total, start_size)
        r3 == r2 \cup Range(size - sig_size - end_size, sig_size)
        b64_sig == Slice(buf, size - sig_size - end_size, sig_size)
        d == decode_exactly(SIG_SIZE, b64_sig, B64_SIG_SIZE)
    IN  IF size < total THEN Reject({})
        ELSE IF ~MemEq(buf, size - end_size, SIG_END, end_size) THEN Reject(r1)
        ELSE IF ~MemEq(buf, size - total, SIG_START, start_size) THEN Reject(r2)
        ELSE IF d.rv # 0 THEN Reject(r3)
        ELSE [rv |-> 0, sig |-> d.buf, new_buf_size |-> size - total,
              reads |-> r3]

\* ichi sig_from_file: the detached signature, read from its own stream
sig_from_file(fp) ==
    LET b64_sig == SubSeq(fp.data, 1, B64_SIG_SIZE)
    IN  IF _read(fp, B64_SIG_SIZE) # 0
        THEN [rv |-> 1, sig |-> <<>>, err |-> "fread()", decoded |-> FALSE]
        ELSE IF \/ b64_validate(b64_sig, B64_SIG_SIZE) # 0
                \/ b64_decoded_size(b64_sig, B64_SIG_SIZE) # SIG_SIZE
        THEN [rv |-> 1, sig |-> <<>>, err |-> "malformed signature",
              decoded |-> FALSE]
        ELSE [rv |-> 0, sig |-> b64_decode(b64_sig, B64_SIG_SIZE),
              err |-> "", decoded |-> TRUE]

\* ------------------------------------------------------------------------
\* Key material loader.  b64_key is the loader's 44-byte text buffer as the
\* loader leaves it; held is the buffer as it was before any wipe.
\* ------------------------------------------------------------------------
Uninit(n) == AsSeq([i \in 1..n |-> -1])

\* read_key_from_file without the test of what _read returns
read_key_from_file_noread(fp, key) ==
    LET b64_key == ReadInto(Uninit(B64_KEY_SIZE), fp.data, B64_KEY_SIZE)
        wiped == Zeros(B64_KEY_SIZE)
    IN  IF ~fp.ok
        THEN [rv |-> 1, key |-> key, b64_key |-> wiped, err |-> "fopen()",
              held |-> Uninit(B64_KEY_SIZE), decoded |-> FALSE]
        ELSE IF \/ b64_validate(b64_key, B64_KEY_SIZE) # 0
                \/ b64_decoded_size(b64_key, B64_KEY_SIZE) # KEY_SIZE
        THEN [rv |-> 1, key |-> key, b64_key |-> wiped,
              err |-> "malformed key", held |-> b64_key, decoded |-> FALSE]
        ELSE [rv |-> 0, key |-> b64_decode(b64_key, B64_KEY_SIZE),
              b64_key |-> wiped, err |-> "", held |-> b64_key,
              decoded |-> TRUE]

\* ichi read_key_from_file(fn, key): key is the caller's buffer
read_key_from_file(fp, key) ==
    LET b64_key == ReadInto(Uninit(B64_KEY_SIZE), fp.data, B64_KEY_SIZE)
        wiped == Zeros(B64_KEY_SIZE)
    IN  IF ~fp.ok
        THEN [rv |-> 1, key |-> key, b64_key |-> wiped, err |-> "fopen()",
              held |-> Uninit(B64_KEY_SIZE), decoded |-> FALSE]
        ELSE IF _read(fp, B64_KEY_SIZE) # 0
        THEN [rv |-> 1, key |-> key, b64_key |-> wiped, err |-> "fread()",
              held |-> b64_key, decoded |-> FALSE]
        ELSE IF \/ b64_validate(b64_key, B64_KEY_SIZE) # 0
                \/ b64_decoded_size(b64_key, B64_KEY_SIZE) # KEY_SIZE
        THEN [rv |-> 1, key |-> key, b64_key |-> wiped,
              err |-> "malformed key", held |-> b64_key, decoded |-> FALSE]
        ELSE [rv |-> 0, key |-> b64_decode(b64_key, B64_KEY_SIZE),
              b64_key |-> wiped, err |-> "", held |-> b64_key,
              decoded |-> TRUE]

\* kurv find_key(key, buf, bufsize)
find_key(buf, bufsize) ==
    IF bufsize < B64_KEY_SIZE THEN [rv |-> -1, buf |-> <<>>]
    ELSE decode_exactly(KEY_SIZE, SubSeq(buf, 1, B64_KEY_SIZE), B64_KEY_SIZE)

\* kurv find_key_in_file(key, fp); err is what read_exactly reports
find_key_in_file(fp, key) ==
    LET b64_key == ReadInto(Uninit(B64_KEY_SIZE), fp.data, B64_KEY_SIZE)
        wiped == Zeros(B64_KEY_SIZE)
        k == find_key(b64_key, B64_KEY_SIZE)
    IN  IF read_exactly(B64_KEY_SIZE, fp) # 0
        THEN [rv |-> -1, key |-> key, b64_key |-> wiped, held |-> b64_key,
              decoded |-> FALSE, err |-> "kurv: fread"]
        ELSE IF k.rv # 0
        THEN [rv |-> -1, key |-> key, b64_key |-> wiped, held |-> b64_key,
              decoded |-> FALSE, err |-> ""]
        ELSE [rv |-> 0, key |-> k.buf, b64_key |-> b64_key,
              held |-> b64_key, decoded |-> TRUE, err |-> ""]

\* ------------------------------------------------------------------------
\* Writing.  wfail = 0: every write succeeds; wfail = k > 0: the k-th write
\* call of the run and every later one fails.  n0 write calls were made
\* before.
\* ------------------------------------------------------------------------
WriteFails(k, wfail) == wfail > 0 /\ k >= wfail

\* ichi XWRITE in sequence: stop at the first write that fails
RECURSIVE XWriteAll(_, _, _)
XWriteAll(chunks, n0, wfail) ==
    IF chunks = <<>> THEN [out |-> <<>>, failed |-> FALSE, n |-> n0]
    ELSE IF WriteFails(n0 + 1, wfail)
    THEN [out |-> <<>>, failed |-> TRUE, n |-> n0 + 1]
    ELSE LET rest == XWriteAll(Tail(chunks), n0 + 1, wfail)
         IN  [rest EXCEPT !.out = Head(chunks) \o @]

\* kurv fwrite in sequence: the result of each call is not looked at
RECURSIVE FWriteAll(_, _, _)
FWriteAll(chunks, n0, wfail) ==
    IF chunks = <<>> THEN [out |-> <<>>, failed |-> FALSE, n |-> n0]
    ELSE LET rest == FWriteAll(Tail(chunks), n0 + 1, wfail)
             bad == WriteFails(n0 + 1, wfail)
         IN  [out |-> (IF bad THEN <<>> ELSE Head(chunks)) \o rest.out,
              failed |-> bad \/ rest.failed, n |-> rest.n]

\* ------------------------------------------------------------------------
\* Armor codec: what sign writes
\* ------------------------------------------------------------------------
\* the write calls of sign without the one of the separator
ichi_sign_chunks_nosep(msg, b64_sig, detached) ==
    IF detached THEN <<b64_sig>>
    ELSE <<msg, SIG_ARMOR_TOP, SubSeq(b64_sig, 1, 44),
           SubSeq(b64_sig, 45, 88), SIG_ARMOR_END>>

\* ichi sign, lines 126-135: the write calls in order
ichi_sign_chunks(msg, b64_sig, detached) ==
    IF detached THEN <<b64_sig>>
    ELSE <<msg, SIG_ARMOR_TOP, SubSeq(b64_sig, 1, 44), <<NL>>,
           SubSeq(b64_sig, 45, 88), SIG_ARMOR_END>>

\* kurv sign, lines 743-746
kurv_sign_chunks(msg, b64_sig) == <<msg, SIG_START, b64_sig, SIG_END>>

\* lines 122-124 / 735-739: the encoded signature of msg under sk
SignB64(sk, msg) ==
    LET pk == crypto_sign_public_key(sk)
        sig == crypto_sign(sk, pk, msg)
    IN  b64_encode(sig, SIG_SIZE)

RECURSIVE Concat(_)
Concat(chunks) ==
    IF chunks = <<>> THEN <<>> ELSE Head(chunks) \o Concat(Tail(chunks))

\* ------------------------------------------------------------------------
\* Keyring entry names
\* ------------------------------------------------------------------------
\* kurv endswith: 0 when src ends with suffix
endswith(src, suffix) ==
    LET src_size == Len(src)
        suffix_size == Len(suffix)
    IN  IF src_size < suffix_size THEN -1
        ELSE IF Slice(src, src_size - suffix_size, suffix_size) = suffix
             THEN 0 ELSE 1

\* ichi verify_keyring, lines 252-253
IchiCandidate(name) ==
    /\ Len(name) >= 9
    /\ Slice(name, Len(name) - 9, 9) = SUFFIX_ICHI

DOT == <<46>>
DOTDOT == <<46, 46>>

\* kurv check_keyring, lines 792-795 (negated)
KurvCandidate(name) ==
    ~(name = DOT \/ name = DOTDOT \/ endswith(name, SUFFIX_KURV) # 0)

\* ------------------------------------------------------------------------
\* The environment of one run: the command line, the files, the keyring
\* ------------------------------------------------------------------------
SK1 == AsSeq([i \in 1..KEY_SIZE |-> i])
SK2 == AsSeq([i \in 1..KEY_SIZE |-> 100 + i])
PK1 == crypto_sign_public_key(SK1)
PK2 == crypto_sign_public_key(SK2)

MsgBytes == {104, 10}
Msgs == UNION {{AsSeq(f) : f \in [1..n -> MsgBytes]} : n \in 0..MaxMsgLen}
MSG_H == <<104>>

Put(b, p, v) == [b EXCEPT ![p] = v]

KeyText(k) == b64_encode(k, KEY_SIZE)

\* key files: absent, empty, one character short, exact, exact and a
\* newline, a character outside the alphabet, a wrong decoded length
KeyFiles(k) ==
    {NoFile, File(<<>>), File(SubSeq(KeyText(k), 1, B64_KEY_SIZE - 1)),
     File(KeyText(k)), File(KeyText(k) \o <<NL>>),
     File(Put(KeyText(k), 5, 33)), File(Put(KeyText(k), B64_KEY_SIZE, 65))}

GoodKeyFiles(k) == {File(KeyText(k)), File(KeyText(k) \o <<NL>>)}

\* detached signature files for message m signed with SK1
SigFiles(m) ==
    LET t == SignB64(SK1, m)
    IN  {File(<<>>), File(SubSeq(t, 1, B64_SIG_SIZE - 1)), File(t),
         File(t \o <<NL>>), File(Put(t, 5, 33)),
         File(Put(t, B64_SIG_SIZE - 1, 65)), File(SignB64(SK1, m \o <<33>>))}

IchiSigned(m) == Concat(ichi_sign_chunks(m, SignB64(SK1, m), FALSE))
KurvSigned(m) == Concat(kurv_sign_chunks(m, SignB64(SK1, m)))

\* signatures that are no signature of any key of the model
ExtraSigs ==
    {Zeros(SIG_SIZE), AsSeq([i \in 1..SIG_SIZE |-> 255]),
     AsSeq([i \in 1..SIG_SIZE |-> (i * 37) % 256])}

\* what sign writes for message m when the signature is s
IchiWrap(m, s) == Concat(ichi_sign_chunks(m, b64_encode(s, SIG_SIZE), FALSE))
KurvWrap(m, s) == Concat(kurv_sign_chunks(m, b64_encode(s, SIG_SIZE)))

\* ways a signed buffer is damaged; total is the envelope length
EndTampers(total) ==
    {[kind |-> "none", pos |-> 0, val |-> 0]}
    \cup {[kind |-> "append", pos |-> n, val |-> v] :
            n \in 1..2, v \in MsgBytes}
    \cup {[kind |-> "keep", pos |-> n, val |-> 0] : n \in {0, 1, total - 1}}

ByteTampers(total) ==
    {[kind |-> "set", pos |-> p, val |-> v] : p \in 1..total, v \in {33, 66}}

Tamper(b, total, t) ==
    CASE t.kind = "none" -> b
      [] t.kind = "append" -> b \o AsSeq([i \in 1..t.pos |-> t.val])
      [] t.kind = "keep" -> SubSeq(b, Len(b) - t.pos + 1, Len(b))
      [] t.kind = "set" -> Put(b, Len(b) - total + t.pos, t.val)

TamperAll(b, total, ts) == {Tamper(b, total, t) : t \in ts}

\* the messages "", "h", "hh", ...
HMsgs == {AsSeq([i \in 1..n |-> 104]) : n \in 0..MaxMsgLen}

IchiBuffers ==
    UNION {TamperAll(IchiSigned(m), TOTAL_SZ, EndTampers(TOTAL_SZ)) :
            m \in Msgs}
    \cup UNION {TamperAll(IchiSigned(m), TOTAL_SZ, ByteTampers(TOTAL_SZ)) :
                 m \in HMsgs}

KURV_TOTAL == SIG_START_LEN + B64_SIG_SIZE + SIG_END_LEN

KurvBuffers ==
    UNION {TamperAll(KurvSigned(m), KURV_TOTAL, EndTampers(KURV_TOTAL)) :
            m \in Msgs}
    \cup UNION {TamperAll(KurvSigned(m), KURV_TOTAL, ByteTampers(KURV_TOTAL)) :
                 m \in HMsgs}

\* "a.sign.pub", "b.sign.pub", "k.pub", "pk1"
N_A == <<97>> \o SUFFIX_ICHI
N_B == <<98>> \o SUFFIX_ICHI
N_K == <<107>> \o SUFFIX_KURV
N_P == <<112, 107, 49>>

Entries ==
    {[name |-> N_A, file |-> f] :
        f \in {NoFile, File(SubSeq(KeyText(PK1), 1, 10)),
               File(Put(KeyText(PK1), 5, 33)),
               File(KeyText(PK1) \o <<NL>>), File(KeyText(PK2))}}
    \cup {[name |-> N_K, file |-> f] :
        f \in {File(KeyText(PK1)), File(SubSeq(KeyText(PK1), 1, 10))}}
    \cup {[name |-> N_B, file |-> File(KeyText(PK1))]}
    \cup {[name |-> N_P, file |-> File(KeyText(PK1))]}

Listings == UNION {[1..n -> Entries] : n \in 0..MaxEntries}

E0 ==
    [prog |-> "ichi", action |-> "sign", kflag |-> FALSE, keyfile |-> NoFile,
     detached |-> FALSE, keyring |-> TRUE, sigfile |-> NoFile,
     stream_output |-> FALSE, show_id |-> FALSE, input |-> File(<<>>),
     keyring_env |-> "unset", dir_ok |-> FALSE, listing |-> <<>>,
     wfail |-> 0]

Inputs == {File(m) : m \in Msgs} \cup {BadFile, NoFile}

IchiSignEnvs ==
    {[E0 EXCEPT !.kflag = TRUE, !.keyfile = kf, !.detached = d,
                !.input = f, !.wfail = w] :
        kf \in KeyFiles(SK1), d \in BOOLEAN, f \in Inputs, w \in {0}}
    \cup {[E0 EXCEPT !.kflag = TRUE, !.keyfile = kf, !.detached = d,
                     !.input = File(m), !.wfail = w] :
        kf \in GoodKeyFiles(SK1), d \in BOOLEAN, m \in Msgs, w \in 1..6}
    \cup {[E0 EXCEPT !.input = File(m)] : m \in Msgs}

IchiVerifyEnvs ==
    {[E0 EXCEPT !.action = "verify", !.keyring = FALSE,
                !.keyfile = File(KeyText(PK1) \o <<NL>>),
                !.stream_output = TRUE, !.input = File(b)] :
        b \in IchiBuffers}
    \cup {[E0 EXCEPT !.action = "verify", !.keyring = FALSE, !.keyfile = kf,
                     !.stream_output = x, !.input = File(IchiSigned(m)),
                     !.wfail = w] :
        kf \in KeyFiles(PK1) \cup {File(KeyText(PK2))}, x \in BOOLEAN,
        m \in Msgs, w \in 0..1}
    \cup UNION {{[E0 EXCEPT !.action = "verify", !.keyring = FALSE,
                            !.keyfile = File(KeyText(k)), !.detached = TRUE,
                            !.sigfile = sf, !.stream_output = TRUE,
                            !.input = File(m)] :
                    k \in {PK1, PK2}, sf \in SigFiles(m) \cup {NoFile}} :
                 m \in Msgs}
    \cup {[E0 EXCEPT !.action = "verify", !.keyring = FALSE,
                     !.keyfile = File(KeyText(PK1)), !.input = f] :
        f \in {BadFile, NoFile}}

KeyringOpts == {<<FALSE, 0>>, <<TRUE, 0>>, <<TRUE, 1>>}

IchiKeyringEnvs ==
    {[E0 EXCEPT !.action = "verify", !.keyring_env = "set", !.dir_ok = TRUE,
                !.listing = l, !.stream_output = o[1], !.wfail = o[2],
                !.input = File(IchiSigned(MSG_H))] :
        l \in Listings, o \in KeyringOpts}
    \cup {[E0 EXCEPT !.action = "verify", !.keyring_env = ke, !.dir_ok = FALSE,
                     !.input = File(IchiSigned(MSG_H))] :
        ke \in {"unset", "set"}}
    \cup {[E0 EXCEPT !.action = "verify", !.keyring_env = "set",
                     !.dir_ok = TRUE, !.listing = l, !.detached = TRUE,
                     !.sigfile = File(SignB64(SK1, MSG_H)),
                     !.stream_output = TRUE, !.input = File(MSG_H)] :
        l \in {<<e>> : e \in Entries}}

IchiTrimEnvs ==
    {[E0 EXCEPT !.action = "trim", !.input = File(b)] : b \in IchiBuffers}
    \cup {[E0 EXCEPT !.action = "trim", !.input = File(IchiSigned(m)),
                     !.wfail = 1] : m \in Msgs}
    \cup {[E0 EXCEPT !.action = "trim", !.input = File(IchiWrap(m, x))] :
            m \in Msgs, x \in ExtraSigs}
    \cup {[E0 EXCEPT !.action = "trim", !.input = f] : f \in {BadFile, NoFile}}

K0 == [E0 EXCEPT !.prog = "kurv"]

KurvSignEnvs ==
    {[K0 EXCEPT !.kflag = TRUE, !.keyfile = kf, !.input = f] :
        kf \in KeyFiles(SK1), f \in Inputs}
    \cup {[K0 EXCEPT !.kflag = TRUE, !.keyfile = kf, !.input = File(m),
                     !.wfail = w] :
        kf \in GoodKeyFiles(SK1), m \in Msgs, w \in 1..4}
    \cup {[K0 EXCEPT !.input = File(m)] : m \in Msgs}

KurvCheckEnvs ==
    {[K0 EXCEPT !.action = "check", !.keyring = FALSE,
                !.keyfile = File(KeyText(PK1) \o <<NL>>),
                !.stream_output = TRUE, !.input = File(b)] :
        b \in KurvBuffers}
    \cup {[K0 EXCEPT !.action = "check", !.keyring = FALSE, !.keyfile = kf,
                     !.stream_output = x, !.show_id = x,
                     !.input = File(KurvSigned(m)), !.wfail = w] :
        kf \in KeyFiles(PK1) \cup {File(KeyText(PK2))}, x \in BOOLEAN,
        m \in Msgs, w \in 0..1}
    \cup {[K0 EXCEPT !.action = "check", !.keyring = FALSE,
                     !.keyfile = File(KeyText(PK1)), !.stream_output = x,
                     !.show_id = ~x, !.input = File(KurvSigned(m)),
                     !.wfail = w] :
        x \in BOOLEAN, m \in Msgs, w \in {0, 2}}
    \cup {[K0 EXCEPT !.action = "check", !.keyring = FALSE,
                     !.keyfile = File(KeyText(PK1)), !.input = f] :
        f \in {BadFile, NoFile}}

KurvKeyringEnvs ==
    {[K0 EXCEPT !.action = "check", !.keyring_env = "set", !.dir_ok = TRUE,
                !.listing = l, !.stream_output = o[1], !.show_id = o[1],
                !.wfail = o[2], !.input = File(KurvSigned(MSG_H))] :
        l \in Listings, o \in KeyringOpts}
    \cup {[K0 EXCEPT !.action = "check", !.keyring_env = "set",
                     !.dir_ok = TRUE, !.listing = <<e>>, !.stream_output = x,
                     !.show_id = ~x, !.input = File(KurvSigned(MSG_H))] :
        e \in Entries, x \in BOOLEAN}
    \cup {[K0 EXCEPT !.action = "check", !.keyring_env = ke, !.dir_ok = FALSE,
                     !.input = File(KurvSigned(MSG_H))] :
        ke \in {"unset", "empty", "set"}}
    \cup {[K0 EXCEPT !.action = "check", !.keyring_env = "set",
                     !.dir_ok = TRUE, !.input = f] :
        f \in {BadFile, File(MSG_H)}}

KurvDetachEnvs ==
    {[K0 EXCEPT !.action = "detach", !.input = File(b)] : b \in KurvBuffers}
    \cup {[K0 EXCEPT !.action = "detach", !.input = File(KurvSigned(m)),
                     !.wfail = 1] : m \in Msgs}
    \cup {[K0 EXCEPT !.action = "detach", !.input = File(KurvWrap(m, x))] :
            m \in Msgs, x \in ExtraSigs}
    \cup {[K0 EXCEPT !.action = "detach", !.input = f] :
        f \in {BadFile, NoFile}}

Envs ==
    IchiSignEnvs \cup IchiVerifyEnvs \cup IchiKeyringEnvs \cup IchiTrimEnvs
    \cup KurvSignEnvs \cup KurvCheckEnvs \cup KurvKeyringEnvs
    \cup KurvDetachEnvs

\* ------------------------------------------------------------------------
\* State
\* ------------------------------------------------------------------------
VARIABLES
    env,        \* the run's environment, fixed from the start
    pc,         \* where the program is
    mem,        \* the byte buffers that can hold key material
    secret_in,  \* the buffers of mem that have held the raw secret key
    out,        \* the bytes written to the output stream
    errs,       \* the messages reported on the error stream
    rv,         \* the result of the run
    nwrites,    \* write calls made so far
    uw,         \* the last decode of a joined envelope
    checks,     \* the calls of crypto_check, in order
    loads,      \* the reads of key and detached-signature files, in order
    loc,        \* verify's message, signature and public key
    scan,       \* the keyring scan
    ident,      \* the identity reported for a good signature
    rd          \* a read-all loop followed read by read

vars ==
    <<env, pc, mem, secret_in, out, errs, rv, nwrites, uw, checks, loads,
      loc, scan, ident, rd>>

\* a read-all loop before its first read: fn is the function, size the
\* allocation, total the bytes stored, r read_file's growth counter; sum is
\* the sum of the counts fread returned, free_ok and inside tell whether
\* every read so far found a whole chunk free, and stayed inside the
\* allocation; ret is the length returned
RdStart(fn, size) ==
    [fn |-> fn, at |-> "loop", size |-> size, total |-> 0, r |-> 0,
     reads |-> 0, sum |-> 0, eof |-> FALSE, error |-> FALSE,
     free_ok |-> TRUE, inside |-> TRUE, shrunk |-> FALSE, ret |-> -1]

RdIdle == [RdStart("none", 0) EXCEPT !.at = "idle"]

\* the programs' state while only a read-all loop is followed
Rest ==
    /\ pc = "read"
    /\ mem = [sctx_sk |-> Uninit(KEY_SIZE), ctx_sk |-> Uninit(KEY_SIZE),
              sk |-> Uninit(KEY_SIZE), b64_key |-> Uninit(B64_KEY_SIZE)]
    /\ secret_in = {}
    /\ out = <<>>
    /\ errs = <<>>
    /\ rv = 1
    /\ nwrites = 0
    /\ uw = [called |-> FALSE, res |-> Reject({})]
    /\ checks = <<>>
    /\ loads = <<>>
    /\ loc = [msg |-> <<>>, msg_size |-> 0, sig |-> <<>>,
              pk |-> Uninit(KEY_SIZE)]
    /\ scan = [entered |-> FALSE, dir |-> "none", idx |-> 1, opened |-> <<>>,
               misuse |-> FALSE]
    /\ ident = <<>>

Init ==
    /\ env \in Envs
    /\ rd = RdIdle
    /\ pc = "start"
    /\ mem = [sctx_sk |-> Uninit(KEY_SIZE), ctx_sk |-> Uninit(KEY_SIZE),
              sk |-> Uninit(KEY_SIZE), b64_key |-> Uninit(B64_KEY_SIZE)]
    /\ secret_in = {}
    /\ out = <<>>
    /\ errs = <<>>
    /\ rv = 1
    /\ nwrites = 0
    /\ uw = [called |-> FALSE, res |-> Reject({})]
    /\ checks = <<>>
    /\ loads = <<>>
    /\ loc = [msg |-> <<>>, msg_size |-> 0, sig |-> <<>>,
              pk |-> Uninit(KEY_SIZE)]
    /\ scan = [entered |-> FALSE, dir |-> "none", idx |-> 1, opened |-> <<>>,
               misuse |-> FALSE]
    /\ ident = <<>>

Load(role, fp, r) ==
    [role |-> role, ok |-> fp.ok, flen |-> Len(fp.data), rv |-> r.rv,
     decoded |-> r.decoded, err |-> r.err]

Said(err) == IF err = "" THEN <<>> ELSE <<err>>

\* ------------------------------------------------------------------------
\* ichi-sign
\* ------------------------------------------------------------------------
\* main, lines 348-399: the options, then the input file
ichi_main_opts ==
    /\ pc = "start"
    /\ env.prog = "ichi"
    /\ \E r \in {read_key_from_file(env.keyfile,
                                     IF env.kflag THEN mem.sctx_sk
                                     ELSE loc.pk)} :
       LET secret == env.kflag
           loading == env.kflag \/ ~env.keyring
           e == IF loading /\ r.rv # 0 THEN <<r.err>>
                ELSE IF env.action = "verify" /\ env.detached
                        /\ ~env.sigfile.ok THEN <<"fopen()">>
                ELSE IF ~env.input.ok THEN <<"fopen()">>
                ELSE <<>>
       IN  /\ mem' = IF ~loading THEN mem
                     ELSE IF secret
                     THEN [mem EXCEPT !.b64_key = r.b64_key, !.sctx_sk = r.key]
                     ELSE [mem EXCEPT !.b64_key = r.b64_key]
           /\ loc' = IF loading /\ ~secret THEN [loc EXCEPT !.pk = r.key]
                     ELSE loc
           /\ secret_in' = IF secret /\ r.decoded
                           THEN secret_in \cup {"sctx_sk"} ELSE secret_in
           /\ loads' = IF loading
                       THEN Append(loads,
                                   Load(IF secret THEN "secret" ELSE "public",
                                        env.keyfile, r))
                       ELSE loads
           /\ errs' = errs \o e
           /\ pc' = IF e = <<>> THEN "main_switch" ELSE "main_error"
    /\ UNCHANGED <<rd, env, out, rv, nwrites, uw, checks, scan, ident>>

\* main, lines 401-420: sign receives its context by value
ichi_main_switch ==
    /\ pc = "main_switch"
    /\ IF env.action = "sign"
       THEN IF ~env.kflag
            THEN /\ errs' = Append(errs, "no secret key specified")
                 /\ pc' = "main_error"
                 /\ UNCHANGED <<mem, secret_in>>
            ELSE /\ mem' = [mem EXCEPT !.ctx_sk = mem.sctx_sk]
                 /\ secret_in' = secret_in \cup {"ctx_sk"}
                 /\ pc' = "sign"
                 /\ errs' = errs
       ELSE /\ pc' = env.action
            /\ UNCHANGED <<mem, secret_in, errs>>
    /\ UNCHANGED <<rd, env, out, rv, nwrites, uw, checks, loads, loc, scan, ident>>

\* sign, lines 110-141
sign(fp, sk, detached, n0, wfail) ==
    LET msg == fp_to_buf(fp)
        w == XWriteAll(ichi_sign_chunks(msg, SignB64(sk, msg), detached),
                       n0, wfail)
    IN  IF msg = NULL
        THEN [rv |-> 1, out |-> <<>>, errs |-> <<"fread()">>, n |-> n0]
        ELSE IF w.failed
        THEN [rv |-> 1, out |-> w.out, errs |-> <<"fwrite()">>, n |-> w.n]
        ELSE [rv |-> 0, out |-> w.out, errs |-> <<>>, n |-> w.n]

ichi_sign ==
    /\ pc = "sign"
    /\ env.prog = "ichi"
    /\ \E r \in {sign(env.input, mem.ctx_sk, env.detached, nwrites,
                     env.wfail)} :
           /\ rv' = r.rv
           /\ out' = out \o r.out
           /\ errs' = errs \o r.errs
           /\ nwrites' = r.n
    /\ pc' = "main_error"
    /\ UNCHANGED <<rd, env, mem, secret_in, uw, checks, loads, loc, scan, ident>>

\* trim writing the buffer up to its old size, the envelope included
trim_whole(fp, n0, wfail) ==
    LET msg == fp_to_buf(fp)
        u == sig_from_buf(msg, Len(msg))
        w == XWriteAll(<<SubSeq(msg, 1, Len(msg))>>, n0, wfail)
    IN  IF msg = NULL
        THEN [rv |-> 1, out |-> <<>>, errs |-> <<"fread()">>, n |-> n0,
              uw |-> [called |-> FALSE, res |-> Reject({})]]
        ELSE IF u.rv # 0
        THEN [rv |-> 1, out |-> <<>>, errs |-> <<"malformed signature">>,
              n |-> n0, uw |-> [called |-> TRUE, res |-> u]]
        ELSE IF w.failed
        THEN [rv |-> 1, out |-> w.out, errs |-> <<"fwrite()">>, n |-> w.n,
              uw |-> [called |-> TRUE, res |-> u]]
        ELSE [rv |-> 0, out |-> w.out, errs |-> <<>>, n |-> w.n,
              uw |-> [called |-> TRUE, res |-> u]]

\* trim, lines 284-303
trim(fp, n0, wfail) ==
    LET msg == fp_to_buf(fp)
        u == sig_from_buf(msg, Len(msg))
        w == XWriteAll(<<SubSeq(msg, 1, u.new_buf_size)>>, n0, wfail)
    IN  IF msg = NULL
        THEN [rv |-> 1, out |-> <<>>, errs |-> <<"fread()">>, n |-> n0,
              uw |-> [called |-> FALSE, res |-> Reject({})]]
        ELSE IF u.rv # 0
        THEN [rv |-> 1, out |-> <<>>, errs |-> <<"malformed signature">>,
              n |-> n0, uw |-> [called |-> TRUE, res |-> u]]
        ELSE IF w.failed
        THEN [rv |-> 1, out |-> w.out, errs |-> <<"fwrite()">>, n |-> w.n,
              uw |-> [called |-> TRUE, res |-> u]]
        ELSE [rv |-> 0, out |-> w.out, errs |-> <<>>, n |-> w.n,
              uw |-> [called |-> TRUE, res |-> u]]

ichi_trim ==
    /\ pc = "trim"
    /\ \E r \in {trim(env.input, nwrites, env.wfail)} :
           /\ rv' = r.rv
           /\ out' = out \o r.out
           /\ errs' = errs \o r.errs
           /\ nwrites' = r.n
           /\ uw' = r.uw
    /\ pc' = "main_error"
    /\ UNCHANGED <<rd, env, mem, secret_in, checks, loads, loc, scan, ident>>

\* main, lines 422-427
ichi_main_error ==
    /\ pc = "main_error"
    /\ mem' = [mem EXCEPT !.sctx_sk = Zeros(KEY_SIZE)]
    /\ pc' = "exit"
    /\ UNCHANGED <<rd, env, secret_in, out, errs, rv, nwrites, uw, checks, loads,
                   loc, scan, ident>>

\* the name of the explicit public key file, "pk"
PK_FN == <<112, 107>>

NoUnwrap == [called |-> FALSE, res |-> Reject({})]
Check(sig, pk, msg) ==
    [sig |-> sig, pk |-> pk, msg |-> msg, res |-> crypto_check(sig, pk, msg)]

\* verify with the message streamed before crypto_check is looked at
verify_early(fp, sigfp, detached, keyring, stream_output, pk, n0, wfail) ==
    LET msg == fp_to_buf(fp)
        f == sig_from_file(sigfp)
        u == sig_from_buf(msg, Len(msg))
        sig == IF detached THEN f.sig ELSE u.sig
        msg_size == IF detached THEN Len(msg) ELSE u.new_buf_size
        m == SubSeq(msg, 1, msg_size)
        c == Check(sig, pk, m)
        w == XWriteAll(<<m>>, n0, wfail)
        b0 == [rv |-> 1, out |-> <<>>, errs |-> <<>>, n |-> n0,
               uw |-> NoUnwrap, checks |-> <<>>, loads |-> <<>>,
               msg |-> <<>>, msg_size |-> 0, sig |-> <<>>, ident |-> <<>>,
               goto |-> "main_error"]
        b1 == IF detached
              THEN [b0 EXCEPT !.loads = <<Load("sig", sigfp, f)>>]
              ELSE [b0 EXCEPT !.uw = [called |-> TRUE, res |-> u]]
        b2 == [b1 EXCEPT !.checks = <<c>>]
    IN  IF msg = NULL THEN [b0 EXCEPT !.errs = <<"fread()">>]
        ELSE IF detached /\ f.rv # 0 THEN [b1 EXCEPT !.errs = <<f.err>>]
        ELSE IF ~detached /\ u.rv # 0
        THEN [b1 EXCEPT !.errs = <<"malformed signature">>]
        ELSE IF keyring
        THEN [b1 EXCEPT !.msg = msg, !.msg_size = msg_size, !.sig = sig,
                        !.goto = "verify_keyring"]
        ELSE IF stream_output /\ w.failed
        THEN [b2 EXCEPT !.errs = <<"fwrite()">>, !.n = w.n]
        ELSE IF c.res # 0
        THEN [b2 EXCEPT !.errs = <<"invalid signature">>,
                        !.out = IF stream_output THEN w.out ELSE <<>>,
                        !.n = IF stream_output THEN w.n ELSE n0]
        ELSE [b2 EXCEPT !.rv = 0, !.errs = <<"good signature">>,
                        !.ident = <<PK_FN>>,
                        !.out = IF stream_output THEN w.out ELSE <<>>,
                        !.n = IF stream_output THEN w.n ELSE n0]

\* verify going on to the keyring when the key given does not verify
verify_fallback(fp, sigfp, detached, keyring, stream_output, pk, n0, wfail) ==
    LET msg == fp_to_buf(fp)
        f == sig_from_file(sigfp)
        u == sig_from_buf(msg, Len(msg))
        sig == IF detached THEN f.sig ELSE u.sig
        msg_size == IF detached THEN Len(msg) ELSE u.new_buf_size
        m == SubSeq(msg, 1, msg_size)
        c == Check(sig, pk, m)
        w == XWriteAll(<<m>>, n0, wfail)
        b0 == [rv |-> 1, out |-> <<>>, errs |-> <<>>, n |-> n0,
               uw |-> NoUnwrap, checks |-> <<>>, loads |-> <<>>,
               msg |-> <<>>, msg_size |-> 0, sig |-> <<>>, ident |-> <<>>,
               goto |-> "main_error"]
        b1 == IF detached
              THEN [b0 EXCEPT !.loads = <<Load("sig", sigfp, f)>>]
              ELSE [b0 EXCEPT !.uw = [called |-> TRUE, res |-> u]]
        b2 == [b1 EXCEPT !.checks = <<c>>]
    IN  IF msg = NULL THEN [b0 EXCEPT !.errs = <<"fread()">>]
        ELSE IF detached /\ f.rv # 0 THEN [b1 EXCEPT !.errs = <<f.err>>]
        ELSE IF ~detached /\ u.rv # 0
        THEN [b1 EXCEPT !.errs = <<"malformed signature">>]
        ELSE IF keyring
        THEN [b1 EXCEPT !.msg = msg, !.msg_size = msg_size, !.sig = sig,
                        !.goto = "verify_keyring"]
        ELSE IF c.res # 0
        THEN [b2 EXCEPT !.msg = msg, !.msg_size = msg_size, !.sig = sig,
                        !.goto = "verify_keyring"]
        ELSE IF stream_output /\ w.failed
        THEN [b2 EXCEPT !.errs = <<"fwrite()">>, !.n = w.n]
        ELSE [b2 EXCEPT !.rv = 0, !.errs = <<"good signature">>,
                        !.ident = <<PK_FN>>,
                        !.out = IF stream_output THEN w.out ELSE <<>>,
                        !.n = IF stream_output THEN w.n ELSE n0]

\* verify, lines 197-229; goto names where the run continues
verify(fp, sigfp, detached, keyring, stream_output, pk, n0, wfail) ==
    LET msg == fp_to_buf(fp)
        f == sig_from_file(sigfp)
        u == sig_from_buf(msg, Len(msg))
        sig == IF detached THEN f.sig ELSE u.sig
        msg_size == IF detached THEN Len(msg) ELSE u.new_buf_size
        m == SubSeq(msg, 1, msg_size)
        c == Check(sig, pk, m)
        w == XWriteAll(<<m>>, n0, wfail)
        b0 == [rv |-> 1, out |-> <<>>, errs |-> <<>>, n |-> n0,
               uw |-> NoUnwrap, checks |-> <<>>, loads |-> <<>>,
               msg |-> <<>>, msg_size |-> 0, sig |-> <<>>, ident |-> <<>>,
               goto |-> "main_error"]
        b1 == IF detached
              THEN [b0 EXCEPT !.loads = <<Load("sig", sigfp, f)>>]
              ELSE [b0 EXCEPT !.uw = [called |-> TRUE, res |-> u]]
        b2 == [b1 EXCEPT !.checks = <<c>>]
    IN  IF msg = NULL THEN [b0 EXCEPT !.errs = <<"fread()">>]
        ELSE IF detached /\ f.rv # 0 THEN [b1 EXCEPT !.errs = <<f.err>>]
        ELSE IF ~detached /\ u.rv # 0
        THEN [b1 EXCEPT !.errs = <<"malformed signature">>]
        ELSE IF keyring
        THEN [b1 EXCEPT !.msg = msg, !.msg_size = msg_size, !.sig = sig,
                        !.goto = "verify_keyring"]
        ELSE IF c.res # 0 THEN [b2 EXCEPT !.errs = <<"invalid signature">>]
        ELSE IF stream_output /\ w.failed
        THEN [b2 EXCEPT !.errs = <<"fwrite()">>, !.n = w.n]
        ELSE [b2 EXCEPT !.rv = 0, !.errs = <<"good signature">>,
                        !.ident = <<PK_FN>>,
                        !.out = IF stream_output THEN w.out ELSE <<>>,
                        !.n = IF stream_output THEN w.n ELSE n0]

ichi_verify ==
    /\ pc = "verify"
    /\ \E r \in {verify(env.input, env.sigfile, env.detached, env.keyring,
                       env.stream_output, loc.pk, nwrites, env.wfail)} :
           /\ rv' = r.rv
           /\ out' = out \o r.out
           /\ errs' = errs \o r.errs
           /\ nwrites' = r.n
           /\ uw' = r.uw
           /\ checks' = checks \o r.checks
           /\ loads' = loads \o r.loads
           /\ loc' = [loc EXCEPT !.msg = r.msg, !.msg_size = r.msg_size,
                                 !.sig = r.sig]
           /\ ident' = r.ident
           /\ pc' = r.goto
    /\ UNCHANGED <<rd, env, mem, secret_in, scan>>

\* verify_keyring, lines 235-245.  dirfd(NULL) is undefined: the run is
\* killed, or the call yields a negative or a non-negative value
ichi_verify_keyring_open ==
    /\ pc = "verify_keyring"
    /\ \/ /\ env.keyring_env = "unset"
          /\ errs' = Append(errs, "$ICHI_SIGN_KEYRING is unset")
          /\ pc' = "main_error"
          /\ scan' = [scan EXCEPT !.entered = TRUE]
       \/ /\ env.keyring_env # "unset"
          /\ env.dir_ok
          /\ scan' = [scan EXCEPT !.entered = TRUE, !.dir = "open"]
          /\ pc' = "vk_scan"
          /\ UNCHANGED errs
       \/ /\ env.keyring_env # "unset"
          /\ ~env.dir_ok
          /\ scan' = [scan EXCEPT !.entered = TRUE, !.dir = "null",
                                   !.misuse = TRUE]
          /\ \E outcome \in {"killed", "negative", "non-negative"} :
                /\ pc' = IF outcome = "killed" THEN "crash" ELSE "main_error"
                /\ errs' = IF outcome = "negative"
                           THEN Append(errs, "dirfd()") ELSE errs
    /\ UNCHANGED <<rd, env, mem, secret_in, out, rv, nwrites, uw, checks, loads,
                   loc, ident>>

\* one directory entry tried whatever its name
ichi_try_entry_anyname(entry, sig, msg) ==
    LET f == entry.file
        n == IF f.rerr THEN -1 ELSE Min(Len(f.data), B64_KEY_SIZE)
        b64_pk == SubSeq(f.data, 1, B64_KEY_SIZE)
        c == Check(sig, b64_decode(b64_pk, B64_KEY_SIZE), msg)
    IN  IF \/ ~f.ok
           \/ n < B64_KEY_SIZE
           \/ b64_validate(b64_pk, B64_KEY_SIZE) # 0
           \/ b64_decoded_size(b64_pk, B64_KEY_SIZE) # KEY_SIZE
        THEN [opened |-> TRUE, loaded |-> FALSE, checks |-> <<>>,
              good |-> FALSE]
        ELSE [opened |-> TRUE, loaded |-> TRUE, checks |-> <<c>>,
              good |-> c.res = 0]

\* verify_keyring, lines 252-265: one directory entry
ichi_try_entry(entry, sig, msg) ==
    LET f == entry.file
        n == IF f.rerr THEN -1 ELSE Min(Len(f.data), B64_KEY_SIZE)
        b64_pk == SubSeq(f.data, 1, B64_KEY_SIZE)
        c == Check(sig, b64_decode(b64_pk, B64_KEY_SIZE), msg)
    IN  IF ~IchiCandidate(entry.name)
        THEN [opened |-> FALSE, loaded |-> FALSE, checks |-> <<>>,
              good |-> FALSE]
        ELSE IF \/ ~f.ok
                \/ n < B64_KEY_SIZE
                \/ b64_validate(b64_pk, B64_KEY_SIZE) # 0
                \/ b64_decoded_size(b64_pk, B64_KEY_SIZE) # KEY_SIZE
        THEN [opened |-> TRUE, loaded |-> FALSE, checks |-> <<>>,
              good |-> FALSE]
        ELSE [opened |-> TRUE, loaded |-> TRUE, checks |-> <<c>>,
              good |-> c.res = 0]

\* one turn of the readdir loop without the break after a good signature
ichi_verify_keyring_scan_nobreak ==
    /\ pc = "vk_scan"
    /\ scan.idx <= Len(env.listing)
    /\ \E t \in {ichi_try_entry(env.listing[scan.idx], loc.sig,
                                 SubSeq(loc.msg, 1, loc.msg_size))},
          w \in {XWriteAll(<<SubSeq(loc.msg, 1, loc.msg_size)>>, nwrites,
                           env.wfail)} :
       LET entry == env.listing[scan.idx]
           seen == IF t.opened THEN Append(scan.opened, scan.idx)
                   ELSE scan.opened
       IN  /\ checks' = checks \o t.checks
           /\ IF ~t.good
              THEN /\ scan' = [scan EXCEPT !.idx = @ + 1, !.opened = seen]
                   /\ UNCHANGED <<pc, ident, errs, out, nwrites, rv>>
              ELSE /\ scan' = [scan EXCEPT !.idx = @ + 1, !.opened = seen]
                   /\ ident' = <<entry.name>>
                   /\ pc' = IF env.stream_output /\ w.failed
                            THEN "main_error" ELSE pc
                   /\ IF env.stream_output
                      THEN /\ out' = out \o w.out
                           /\ nwrites' = w.n
                           /\ errs' = errs \o <<"good signature">>
                                      \o (IF w.failed THEN <<"fwrite()">>
                                          ELSE <<>>)
                           /\ rv' = IF w.failed THEN rv ELSE 0
                      ELSE /\ errs' = Append(errs, "good signature")
                           /\ rv' = 0
                           /\ UNCHANGED <<out, nwrites>>
    /\ UNCHANGED <<rd, env, mem, secret_in, uw, loads, loc>>

\* verify_keyring, lines 251-276: one turn of the readdir loop
ichi_verify_keyring_scan ==
    /\ pc = "vk_scan"
    /\ scan.idx <= Len(env.listing)
    /\ \E t \in {ichi_try_entry(env.listing[scan.idx], loc.sig,
                                 SubSeq(loc.msg, 1, loc.msg_size))},
          w \in {XWriteAll(<<SubSeq(loc.msg, 1, loc.msg_size)>>, nwrites,
                           env.wfail)} :
       LET entry == env.listing[scan.idx]
           seen == IF t.opened THEN Append(scan.opened, scan.idx)
                   ELSE scan.opened
       IN  /\ checks' = checks \o t.checks
           /\ IF ~t.good
              THEN /\ scan' = [scan EXCEPT !.idx = @ + 1, !.opened = seen]
                   /\ UNCHANGED <<pc, ident, errs, out, nwrites, rv>>
              ELSE /\ scan' = [scan EXCEPT !.opened = seen, !.dir = "closed"]
                   /\ ident' = <<entry.name>>
                   /\ pc' = "main_error"
                   /\ IF env.stream_output
                      THEN /\ out' = out \o w.out
                           /\ nwrites' = w.n
                           /\ errs' = errs \o <<"good signature">>
                                      \o (IF w.failed THEN <<"fwrite()">>
                                          ELSE <<>>)
                           /\ rv' = IF w.failed THEN rv ELSE 0
                      ELSE /\ errs' = Append(errs, "good signature")
                           /\ rv' = 0
                           /\ UNCHANGED <<out, nwrites>>
    /\ UNCHANGED <<rd, env, mem, secret_in, uw, loads, loc>>

\* verify_keyring, lines 251, 278-281: readdir finds no more entries
ichi_verify_keyring_end ==
    /\ pc = "vk_scan"
    /\ scan.idx > Len(env.listing)
    /\ scan' = [scan EXCEPT !.dir = "closed"]
    /\ pc' = "main_error"
    /\ UNCHANGED <<rd, env, mem, secret_in, out, errs, rv, nwrites, uw, checks,
                   loads, loc, ident>>

\* ------------------------------------------------------------------------
\* kurv
\* ------------------------------------------------------------------------
\* main, lines 917-962: fopen_or_die for each file, then the switch
kurv_main ==
    /\ pc = "start"
    /\ env.prog = "kurv"
    /\ LET needkey == env.kflag \/ (env.action = "check" /\ ~env.keyring)
           e == IF ~env.input.ok \/ (needkey /\ ~env.keyfile.ok)
                THEN <<"cannot open">>
                ELSE IF env.action = "sign" /\ ~env.kflag
                THEN <<"no private key file specified.">>
                ELSE <<>>
       IN  /\ errs' = errs \o e
           /\ pc' = IF e # <<>> THEN "exit"
                    ELSE IF env.action = "check" /\ env.keyring
                    THEN "check_keyring"
                    ELSE env.action
    /\ UNCHANGED <<rd, env, mem, secret_in, out, rv, nwrites, uw, checks, loads,
                   loc, scan, ident>>

\* sign, lines 714-749; sk and b64_key are the buffers as sign leaves them
sign_kurv(fp, sk_fp, sk, n0, wfail) ==
    LET k == find_key_in_file(sk_fp, sk)
        msg == read_file(fp)
        w == FWriteAll(kurv_sign_chunks(msg, SignB64(k.key, msg)), n0, wfail)
        b0 == [rv |-> 1, out |-> <<>>, errs |-> <<>>, n |-> n0,
               sk |-> Zeros(KEY_SIZE), b64_key |-> k.b64_key,
               load |-> Load("secret", sk_fp, k)]
    IN  IF k.rv = -1
        THEN [b0 EXCEPT !.errs = Said(k.err) \o <<"invalid private key.">>]
        ELSE IF msg = NULL THEN [b0 EXCEPT !.errs = <<"cannot read file">>]
        ELSE [b0 EXCEPT !.rv = 0, !.out = w.out, !.n = w.n]

kurv_sign ==
    /\ pc = "sign"
    /\ env.prog = "kurv"
    /\ \E r \in {sign_kurv(env.input, env.keyfile, mem.sk, nwrites,
                          env.wfail)} :
           /\ rv' = r.rv
           /\ out' = out \o r.out
           /\ errs' = errs \o r.errs
           /\ nwrites' = r.n
           /\ mem' = [mem EXCEPT !.sk = r.sk, !.b64_key = r.b64_key]
           /\ secret_in' = IF r.load.decoded THEN secret_in \cup {"sk"}
                           ELSE secret_in
           /\ loads' = Append(loads, r.load)
    /\ pc' = "exit"
    /\ UNCHANGED <<rd, env, uw, checks, loc, scan, ident>>

\* check, lines 824-851
check(fp, pk_fp, show_id, show_og, n0, wfail) ==
    LET k == find_key_in_file(pk_fp, Uninit(KEY_SIZE))
        msg == read_file(fp)
        u == find_signature(msg, Len(msg))
        m == SubSeq(msg, 1, u.new_buf_size)
        c == Check(u.sig, k.key, m)
        w == FWriteAll((IF show_id THEN <<PK_FN \o <<NL>> >> ELSE <<>>)
                       \o (IF show_og THEN <<m>> ELSE <<>>), n0, wfail)
        b0 == [rv |-> 1, out |-> <<>>, errs |-> <<>>, n |-> n0,
               uw |-> NoUnwrap, checks |-> <<>>, ident |-> <<>>,
               b64_key |-> k.b64_key, load |-> Load("public", pk_fp, k)]
        b1 == [b0 EXCEPT !.uw = [called |-> TRUE, res |-> u]]
        b2 == [b1 EXCEPT !.checks = <<c>>]
    IN  IF k.rv = -1
        THEN [b0 EXCEPT !.errs = Said(k.err) \o <<"invalid public key.">>]
        ELSE IF msg = NULL THEN [b0 EXCEPT !.errs = <<"error reading file.">>]
        ELSE IF u.rv < 0
        THEN [b1 EXCEPT !.errs = <<"cannot find / malformed signature.">>]
        ELSE IF c.res # 0 THEN [b2 EXCEPT !.errs = <<"invalid signature.">>]
        ELSE [b2 EXCEPT !.rv = 0, !.out = w.out, !.n = w.n,
                        !.ident = IF show_id THEN <<PK_FN>> ELSE <<>>]

kurv_check ==
    /\ pc = "check"
    /\ \E r \in {check(env.input, env.keyfile, env.show_id, env.stream_output,
                      nwrites, env.wfail)} :
           /\ rv' = r.rv
           /\ out' = out \o r.out
           /\ errs' = errs \o r.errs
           /\ nwrites' = r.n
           /\ uw' = r.uw
           /\ checks' = checks \o r.checks
           /\ ident' = r.ident
           /\ mem' = [mem EXCEPT !.b64_key = r.b64_key]
           /\ loads' = Append(loads, r.load)
    /\ pc' = "exit"
    /\ UNCHANGED <<rd, env, secret_in, loc, scan>>

\* detach, lines 857-871
detach(fp, n0, wfail) ==
    LET msg == read_file(fp)
        u == find_signature(msg, Len(msg))
        w == FWriteAll(<<SubSeq(msg, 1, u.new_buf_size)>>, n0, wfail)
    IN  IF msg = NULL
        THEN [rv |-> 1, out |-> <<>>, errs |-> <<"error reading file.">>,
              n |-> n0, uw |-> NoUnwrap]
        ELSE IF u.rv < 0
        THEN [rv |-> 1, out |-> <<>>,
              errs |-> <<"cannot find / malformed signature.">>,
              n |-> n0, uw |-> [called |-> TRUE, res |-> u]]
        ELSE [rv |-> 0, out |-> w.out, errs |-> <<>>, n |-> w.n,
              uw |-> [called |-> TRUE, res |-> u]]

kurv_detach ==
    /\ pc = "detach"
    /\ \E r \in {detach(env.input, nwrites, env.wfail)} :
           /\ rv' = r.rv
           /\ out' = out \o r.out
           /\ errs' = errs \o r.errs
           /\ nwrites' = r.n
           /\ uw' = r.uw
    /\ pc' = "exit"
    /\ UNCHANGED <<rd, env, mem, secret_in, checks, loads, loc, scan, ident>>

\* check_keyring, lines 757-788: up to the opening of the directory
check_keyring_open(fp, keyring_env, dir_ok) ==
    LET msg == read_file(fp)
        u == find_signature(msg, Len(msg))
        b0 == [errs |-> <<>>, uw |-> NoUnwrap, msg |-> <<>>, msg_size |-> 0,
               sig |-> <<>>, dir |-> "none", goto |-> "exit"]
        b1 == [b0 EXCEPT !.uw = [called |-> TRUE, res |-> u]]
    IN  IF keyring_env \in {"unset", "empty"}
        THEN [b0 EXCEPT !.errs = <<"$KURV_KEYRING is not set.">>]
        ELSE IF msg = NULL THEN [b0 EXCEPT !.errs = <<"error reading file.">>]
        ELSE IF u.rv < 0
        THEN [b1 EXCEPT !.errs = <<"cannot find / malformed signature.">>]
        ELSE IF ~dir_ok THEN [b1 EXCEPT !.errs = <<"opendir">>, !.dir = "null"]
        ELSE [b1 EXCEPT !.msg = msg, !.msg_size = u.new_buf_size,
                        !.sig = u.sig, !.dir = "open", !.goto = "ck_scan"]

kurv_check_keyring_open ==
    /\ pc = "check_keyring"
    /\ \E r \in {check_keyring_open(env.input, env.keyring_env, env.dir_ok)} :
           /\ errs' = errs \o r.errs
           /\ uw' = r.uw
           /\ loc' = [loc EXCEPT !.msg = r.msg, !.msg_size = r.msg_size,
                                 !.sig = r.sig]
           /\ scan' = [scan EXCEPT !.entered = TRUE, !.dir = r.dir]
           /\ pc' = r.goto
    /\ UNCHANGED <<rd, env, mem, secret_in, out, rv, nwrites, checks, loads,
                   ident>>

\* check_keyring, lines 790-808: one directory entry
kurv_try_entry(entry, sig, msg) ==
    LET f == entry.file
        k == find_key_in_file(f, Uninit(KEY_SIZE))
        c == Check(sig, k.key, msg)
        no == [opened |-> FALSE, loaded |-> FALSE, checks |-> <<>>,
               good |-> FALSE, b64_key |-> <<>>, errs |-> <<>>]
    IN  IF ~KurvCandidate(entry.name) THEN no
        ELSE IF ~f.ok THEN [no EXCEPT !.opened = TRUE]
        ELSE IF k.rv # 0
        THEN [no EXCEPT !.opened = TRUE, !.b64_key = k.b64_key,
                        !.errs = Said(k.err)]
        ELSE [opened |-> TRUE, loaded |-> TRUE, checks |-> <<c>>,
              good |-> c.res = 0, b64_key |-> k.b64_key, errs |-> <<>>]

\* check_keyring, lines 790-814: one turn of the readdir loop
kurv_check_keyring_scan ==
    /\ pc = "ck_scan"
    /\ scan.idx <= Len(env.listing)
    /\ \E t \in {kurv_try_entry(env.listing[scan.idx], loc.sig,
                                 SubSeq(loc.msg, 1, loc.msg_size))},
          w \in {FWriteAll((IF env.show_id
                            THEN <<env.listing[scan.idx].name \o <<NL>> >>
                            ELSE <<>>)
                           \o (IF env.stream_output
                               THEN <<SubSeq(loc.msg, 1, loc.msg_size)>>
                               ELSE <<>>),
                           nwrites, env.wfail)} :
       LET entry == env.listing[scan.idx]
           seen == IF t.opened THEN Append(scan.opened, scan.idx)
                   ELSE scan.opened
       IN  /\ checks' = checks \o t.checks
           /\ errs' = errs \o t.errs
           /\ mem' = IF t.b64_key = <<>> THEN mem
                     ELSE [mem EXCEPT !.b64_key = t.b64_key]
           /\ IF ~t.good
              THEN /\ scan' = [scan EXCEPT !.idx = @ + 1, !.opened = seen]
                   /\ UNCHANGED <<pc, ident, out, nwrites, rv>>
              ELSE /\ scan' = [scan EXCEPT !.opened = seen]
                   /\ ident' = <<entry.name>>
                   /\ out' = out \o w.out
                   /\ nwrites' = w.n
                   /\ rv' = 0
                   /\ pc' = "exit"
    /\ UNCHANGED <<rd, env, secret_in, uw, loads, loc>>

\* check_keyring, lines 816-817
kurv_check_keyring_end ==
    /\ pc = "ck_scan"
    /\ scan.idx > Len(env.listing)
    /\ errs' = Append(errs, "cannot find a signer.")
    /\ pc' = "exit"
    /\ UNCHANGED <<rd, env, mem, secret_in, out, rv, nwrites, uw, checks, loads,
                   loc, scan, ident>>

\* ------------------------------------------------------------------------
\* Specification
\* ------------------------------------------------------------------------
Next ==
    \/ ichi_main_opts
    \/ ichi_main_switch
    \/ ichi_sign
    \/ ichi_verify
    \/ ichi_verify_keyring_open
    \/ ichi_verify_keyring_scan
    \/ ichi_verify_keyring_end
    \/ ichi_trim
    \/ ichi_main_error
    \/ kurv_main
    \/ kurv_sign
    \/ kurv_check
    \/ kurv_detach
    \/ kurv_check_keyring_open
    \/ kurv_check_keyring_scan
    \/ kurv_check_keyring_end

Spec == Init /\ [][Next]_vars

\* ------------------------------------------------------------------------
\* The read-all loops, one fread at a time
\* ------------------------------------------------------------------------
\* what one fread of chunk bytes can return: a count, and whether the
\* stream's end-of-file or error indicator is set afterwards; a count
\* short of chunk comes with one of the two
Freads(chunk) ==
    {[n |-> n, flag |-> f] :
        n \in {0, 1, chunk - 1, chunk}, f \in {"none", "eof", "error"}}
    \ {[n |-> n, flag |-> "none"] : n \in {0, 1, chunk - 1}}

\* the bookkeeping of one fread of chunk bytes that returned f
AfterRead(chunk, f) ==
    [rd EXCEPT !.total = @ + f.n, !.sum = @ + f.n, !.reads = @ + 1,
               !.eof = @ \/ f.flag = "eof",
               !.error = @ \/ f.flag = "error",
               !.free_ok = @ /\ rd.size - rd.total >= chunk,
               !.inside = @ /\ rd.total + f.n <= rd.size]

\* the loop's next state x, with a smaller allocation noted
Track(x) == [x EXCEPT !.shrunk = @ \/ x.size < rd.size]

\* fp_to_buf, lines 87-104: one turn of while (1)
fp_to_buf_read ==
    /\ rd.fn = "fp_to_buf"
    /\ rd.at = "loop"
    /\ rd.reads < MaxReads
    /\ \E f \in Freads(BUF_SIZE), alloc_ok \in BOOLEAN :
       LET a == AfterRead(BUF_SIZE, f)
           grow == a.total + BUF_SIZE > a.size
       IN  rd' = Track(
                 IF a.error THEN [a EXCEPT !.at = "error"]
                 ELSE IF a.eof THEN [a EXCEPT !.at = "done", !.ret = a.total]
                 ELSE IF ~grow THEN a
                 ELSE IF ~alloc_ok THEN [a EXCEPT !.at = "error"]
                 ELSE [a EXCEPT !.size = @ + BUF_SIZE])
    /\ UNCHANGED <<env, pc, mem, secret_in, out, errs, rv, nwrites, uw,
                   checks, loads, loc, scan, ident>>

\* read_file, lines 536-561: one turn of
\* while (!feof(fp) && (n = fread(...)) > 0), then what follows the loop
read_file_read ==
    /\ rd.fn = "read_file"
    /\ rd.at = "loop"
    /\ rd.reads < MaxReads
    /\ IF rd.eof
       THEN rd' = IF rd.error THEN [rd EXCEPT !.at = "error"]
                  ELSE [rd EXCEPT !.at = "done", !.ret = rd.total]
       ELSE \E f \in Freads(READ_SIZE), alloc_ok \in BOOLEAN :
            LET a == AfterRead(READ_SIZE, f)
                grow == a.size <= a.total
            IN  rd' = Track(
                      IF f.n = 0
                      THEN IF a.error THEN [a EXCEPT !.at = "error"]
                           ELSE [a EXCEPT !.at = "done", !.ret = a.total]
                      ELSE IF ~grow THEN a
                      ELSE IF ~alloc_ok THEN [a EXCEPT !.at = "error"]
                      ELSE [a EXCEPT !.r = @ + 1,
                                     !.size = @ + (rd.r + 1) * READ_SIZE])
    /\ UNCHANGED <<env, pc, mem, secret_in, out, errs, rv, nwrites, uw,
                   checks, loads, loc, scan, ident>>

InitRead ==
    /\ env = E0
    /\ rd \in {RdStart("fp_to_buf", BUF_SIZE),
               RdStart("read_file", READ_SIZE)}
    /\ Rest

NextRead == fp_to_buf_read \/ read_file_read

SpecRead == InitRead /\ [][NextRead]_vars

\* ------------------------------------------------------------------------
\* Properties
\* ------------------------------------------------------------------------
\* the buffer the last decode of a joined envelope was given: the input
\* as it was read
Buf == env.input.data

\* the envelope length of the running program
EnvelopeLen == IF env.prog = "ichi" THEN TOTAL_SZ ELSE KURV_TOTAL

Sigs(m) == ExtraSigs \cup {crypto_sign(SK1, PK1, m)}

\* what each program's sign writes, for every message and signature
Wraps ==
    UNION {{[prog |-> "ichi", msg |-> m, sig |-> s, buf |-> IchiWrap(m, s)] :
                s \in Sigs(m)}
           \cup {[prog |-> "kurv", msg |-> m, sig |-> s,
                  buf |-> KurvWrap(m, s)] : s \in Sigs(m)} : m \in Msgs}

\* C1: decoding what sign writes for message m and signature s succeeds,
\* yields exactly s and leaves len(m) bytes, in ichi-sign and in kurv;
\* with the empty message the buffer is one envelope long and 0 is left.
C1_RoundTrip ==
    uw.called =>
        \A w \in Wraps :
            (w.prog = env.prog /\ Buf = w.buf) =>
                /\ uw.res.rv = 0
                /\ uw.res.sig = w.sig
                /\ uw.res.new_buf_size = Len(w.msg)

\* a buffer of exactly one envelope was decoded, leaving the empty message
C1_Witness ==
    /\ uw.called
    /\ \E w \in Wraps :
          w.prog = env.prog /\ w.msg = <<>> /\ w.sig \in ExtraSigs
          /\ Buf = w.buf
    /\ Len(Buf) = EnvelopeLen
    /\ uw.res.rv = 0
    /\ uw.res.new_buf_size = 0

\* C2: when a Sign run exits, every buffer that held the raw secret key is
\* zeroed, the copy inside sign's by-value context included.
C2_SecretWiped ==
    pc = "exit" => \A r \in secret_in : mem[r] = Zeros(KEY_SIZE)

\* C3: after a secret key is loaded, on the successful path as on the
\* failing ones, the loader's 44-character text buffer is zeroed.
C3_EncodedTextWiped ==
    (loads # <<>> /\ loads[1].role = "secret")
        => mem.b64_key = Zeros(B64_KEY_SIZE)

\* the envelope length as the specification computes it, with the markers
\* of the running program
SpecEnvelopeLen ==
    IF env.prog = "ichi" THEN Len(SIG_ARMOR_TOP) + 44 + 1 + 44 + Len(SIG_ARMOR_END)
    ELSE Len(SIG_START) + 44 + 1 + 44 + Len(SIG_END)

Candidate(e) ==
    IF env.prog = "ichi" THEN IchiCandidate(e.name) ELSE KurvCandidate(e.name)

KeyTextOf(e) == SubSeq(e.file.data, 1, B64_KEY_SIZE)

WellFormedKey(e) ==
    /\ e.file.ok
    /\ Len(e.file.data) >= B64_KEY_SIZE
    /\ b64_validate(KeyTextOf(e), B64_KEY_SIZE) = 0
    /\ b64_decoded_size(KeyTextOf(e), B64_KEY_SIZE) = KEY_SIZE

Verifies(e) ==
    crypto_check(loc.sig, b64_decode(KeyTextOf(e), B64_KEY_SIZE),
                 SubSeq(loc.msg, 1, loc.msg_size)) = 0

Matching ==
    {i \in 1..Len(env.listing) :
        /\ Candidate(env.listing[i])
        /\ WellFormedKey(env.listing[i])
        /\ Verifies(env.listing[i])}

ScanDone == pc = "exit" /\ scan.dir \in {"open", "closed"}

NotFoundReport ==
    IF env.prog = "ichi" THEN errs = <<>>
    ELSE errs # <<>> /\ errs[Len(errs)] = "cannot find a signer."

\* C5: when the scan of an opened keyring is over, an identity is reported
\* if and only if some entry with the candidate suffix loads as a
\* well-formed key and verifies the signature, and it is such an entry's
\* name; with no such entry every entry was passed over, the run fails and
\* ends as not found; with one, the run succeeds unless a write fails.
C5_KeyringScan ==
    ScanDone =>
        /\ ident # <<>> <=> Matching # {}
        /\ ident # <<>> => \E i \in Matching : ident[1] = env.listing[i].name
        /\ Matching = {} =>
              /\ rv # 0
              /\ scan.idx = Len(env.listing) + 1
              /\ NotFoundReport
        /\ (Matching # {} /\ env.wfail = 0) => rv = 0

\* a scan passed over a candidate that does not load and found a later one
C5_Witness ==
    /\ ScanDone
    /\ \E i, j \in 1..Len(env.listing) :
          /\ i < j
          /\ Candidate(env.listing[i])
          /\ ~WellFormedKey(env.listing[i])
          /\ j \in Matching
          /\ ident = <<env.listing[j].name>>
    /\ rv = 0

\* C6: with the keyring location unset, or set to a directory that cannot
\* be opened, keyring verification reports an error and fails, and the
\* handle that failed to open is never used.
C6_ConfigError ==
    (scan.entered /\ (env.keyring_env = "unset" \/ ~env.dir_ok))
        => /\ ~scan.misuse
           /\ pc # "crash"
           /\ pc = "exit" => (rv # 0 /\ errs # <<>>)

\* the places of the 88 signature characters in the envelope, from 1
SigCharPos ==
    IF env.prog = "ichi"
    THEN (TOP_SZ + 1)..(TOP_SZ + 44) \cup (TOP_SZ + 46)..(TOP_SZ + 89)
    ELSE (SIG_START_LEN + 1)..(SIG_START_LEN + B64_SIG_SIZE)

Signed(m) == IF env.prog = "ichi" THEN IchiSigned(m) ELSE KurvSigned(m)

\* the buffer is the signed message m with signature characters replaced,
\* and nothing else
Corrupted(m) ==
    /\ Len(Buf) = Len(m) + EnvelopeLen
    /\ \E s \in {Signed(m)} :
          /\ Buf # s
          /\ \A p \in 1..Len(s) :
                Buf[p] # s[p] => (p - Len(m)) \in SigCharPos

\* the 88 signature characters of the buffer
SigChars ==
    LET e == SubSeq(Buf, Len(Buf) - EnvelopeLen + 1, Len(Buf))
    IN  AsSeq([i \in 1..B64_SIG_SIZE |->
                  e[IF env.prog = "ichi"
                    THEN TOP_SZ + i + (IF i > 44 THEN 1 ELSE 0)
                    ELSE SIG_START_LEN + i]])

TrimDone == pc = "exit" /\ env.action \in {"trim", "detach"}

\* C7 as stated: trim of a signed message with any signature character
\* corrupted writes exactly the message and succeeds, with no
\* cryptographic check.
C7_Original ==
    TrimDone =>
        \A m \in HMsgs : Corrupted(m) =>
            (rv = 0 /\ out = m /\ checks = <<>>)

\* C7 amended: trim of a signed message with a signature character
\* corrupted writes exactly the message and succeeds, with no
\* cryptographic check, when the 88 characters still pass the encoding
\* validation and decode to 64 bytes; otherwise it fails and writes
\* nothing, again with no cryptographic check.
C7_Trim ==
    TrimDone =>
        \A m \in HMsgs : Corrupted(m) =>
            IF /\ b64_validate(SigChars, B64_SIG_SIZE) = 0
               /\ b64_decoded_size(SigChars, B64_SIG_SIZE) = SIG_SIZE
            THEN rv = 0 /\ out = m /\ checks = <<>>
            ELSE rv # 0 /\ out = <<>> /\ checks = <<>>

\* trim wrote the message of a buffer whose signature was corrupted
C7_Witness ==
    /\ TrimDone
    /\ Corrupted(MSG_H)
    /\ uw.res.rv = 0
    /\ uw.res.sig # crypto_sign(SK1, PK1, MSG_H)
    /\ rv = 0
    /\ out = MSG_H

\* a Sign run that ended with every write accepted
SignDone ==
    /\ pc = "exit"
    /\ env.action = "sign"
    /\ rv = 0
    /\ ~WriteFails(nwrites, env.wfail)

StartMarker == IF env.prog = "ichi" THEN SIG_ARMOR_TOP ELSE SIG_START
EndMarker == IF env.prog = "ichi" THEN SIG_ARMOR_END ELSE SIG_END
SignedText == SignB64(SK1, env.input.data)

Tail_(n) == SubSeq(Buf, Len(Buf) - n + 1, Len(Buf))

\* the layout of the specification at the end of the buffer
SpecLayoutAtEnd ==
    /\ Len(Buf) >= SpecEnvelopeLen
    /\ LET e == Tail_(SpecEnvelopeLen)
           a == Len(StartMarker)
       IN  /\ SubSeq(e, 1, a) = StartMarker
           /\ e[a + 45] = NL
           /\ SubSeq(e, a + 90, SpecEnvelopeLen) = EndMarker

\* the layout of the running program at the end of the buffer
LayoutAtEnd ==
    /\ Len(Buf) >= EnvelopeLen
    /\ LET e == Tail_(EnvelopeLen)
           a == Len(StartMarker)
       IN  /\ SubSeq(e, 1, a) = StartMarker
           /\ env.prog = "ichi" => e[a + 45] = NL
           /\ SubSeq(e, EnvelopeLen - Len(EndMarker) + 1, EnvelopeLen)
                = EndMarker

FixedLen(l) == IF l.role = "sig" THEN B64_SIG_SIZE ELSE B64_KEY_SIZE
RawLen(l) == IF l.role = "sig" THEN SIG_SIZE ELSE KEY_SIZE
LoadFile(l) == IF l.role = "sig" THEN env.sigfile ELSE env.keyfile
IoErrors == {"fread()", "kurv: fread"}

\* C10 as stated: a key input whose length is not 44 and a detached
\* signature input whose length is not 88 is rejected and not decoded.
C10_Original ==
    \A i \in 1..Len(loads) :
        (loads[i].ok /\ loads[i].flen # FixedLen(loads[i]))
            => (loads[i].rv # 0 /\ ~loads[i].decoded)

\* C10 amended: an input shorter than the fixed length is rejected as an
\* I/O error and not decoded; of a longer input only the first 44 (88)
\* characters are read, and it is decoded when these are well formed.
C10_EncodedLength ==
    \A i \in 1..Len(loads) :
        LET l == loads[i]
            t == SubSeq(LoadFile(l).data, 1, FixedLen(l))
        IN  l.ok =>
              IF l.flen < FixedLen(l)
              THEN l.rv # 0 /\ ~l.decoded /\ l.err \in IoErrors
              ELSE l.decoded <=>
                      /\ b64_validate(t, FixedLen(l)) = 0
                      /\ b64_decoded_size(t, FixedLen(l)) = RawLen(l)

\* a key file one character short was rejected as an I/O error
C10_Witness ==
    /\ loads # <<>>
    /\ loads[1].ok
    /\ loads[1].flen = B64_KEY_SIZE - 1
    /\ loads[1].rv # 0
    /\ loads[1].err \in IoErrors

\* some write call of the run failed
WriteFailed == WriteFails(nwrites, env.wfail)

\* C11: when a write of the message or of an envelope part fails during
\* Sign, the run reports the failure and its result is not 0.
C11_WriteFailureFatal ==
    (pc = "exit" /\ env.action = "sign" /\ WriteFailed)
        => (rv # 0 /\ errs # <<>>)

VerifyRun == env.action \in {"verify", "check"}

\* the last call of crypto_check succeeded
Trusted == checks # <<>> /\ checks[Len(checks)].res = 0

\* the message of the last call of crypto_check
CheckedMsg == checks[Len(checks)].msg

\* the input with the envelope removed; in detached mode, the input
Payload ==
    IF env.detached THEN Buf ELSE SubSeq(Buf, 1, Len(Buf) - EnvelopeLen)

\* the line kurv -i prints on the output before the message
IdLine ==
    IF env.prog = "kurv" /\ env.show_id /\ ident # <<>>
    THEN ident[1] \o <<NL>> ELSE <<>>

\* C12: in a Verify run nothing is written to the output unless the last
\* crypto_check has returned success; what is written of the message is
\* then the message given to that call, which is the input with the
\* envelope removed, and it is written whenever streaming was requested
\* and the writes are accepted.
C12_PayloadAfterTrust ==
    VerifyRun =>
        /\ out # <<>> => Trusted
        /\ Trusted =>
              /\ CheckedMsg = Payload
              /\ out \in {<<>>, IdLine, CheckedMsg, IdLine \o CheckedMsg}
              /\ ~env.stream_output => out \in {<<>>, IdLine}
              /\ (pc = "exit" /\ env.stream_output /\ ~WriteFailed)
                    => out = IdLine \o CheckedMsg

\* a keyring scan streamed the message after a first key had failed
C12_Witness ==
    /\ VerifyRun
    /\ env.stream_output
    /\ Len(checks) >= 2
    /\ checks[1].res # 0
    /\ Trusted
    /\ out = MSG_H

\* the first entry of the listing that loads and verifies (0: none)
FirstMatch ==
    IF Matching = {} THEN 0
    ELSE CHOOSE i \in Matching : \A j \in Matching : i <= j

\* the entries up to the i-th that the scan has to load
LoadedUpTo(i) ==
    {j \in 1..i : Candidate(env.listing[j]) /\ WellFormedKey(env.listing[j])}

\* C13: when some entry loads and verifies, the identity reported is the
\* name of the first such entry of the listing, the scan stops at that
\* entry, and no later entry is opened, loaded or checked.
C13_FirstMatch ==
    (ScanDone /\ Matching # {}) =>
        /\ ident = <<env.listing[FirstMatch].name>>
        /\ scan.idx = FirstMatch
        /\ \A k \in 1..Len(scan.opened) : scan.opened[k] <= FirstMatch
        /\ Len(checks) = Cardinality(LoadedUpTo(FirstMatch))
        /\ \A k \in 1..(Len(checks) - 1) : checks[k].res # 0
        /\ checks[Len(checks)].res = 0

\* the first of two entries with different names that both verify was
\* reported
C13_Witness ==
    /\ ScanDone
    /\ \E g \in Matching :
          /\ g > FirstMatch
          /\ env.listing[g].name # env.listing[FirstMatch].name
    /\ ident = <<env.listing[FirstMatch].name>>
    /\ Len(checks) = 1

\* C14: in both read-all loops every read finds at least a whole chunk
\* free in the allocation, so none writes past it; the capacity never
\* shrinks; the length returned is the sum of the bytes read.
C14_Capacity ==
    /\ rd.free_ok
    /\ rd.inside
    /\ ~rd.shrunk
    /\ rd.at = "done" => rd.ret = rd.sum

\* a Verify run with an explicit public key has ended
ExplicitDone == pc = "exit" /\ VerifyRun /\ ~env.keyring

\* the key file given decodes to a key and the input holds a signature
Checkable ==
    /\ loads # <<>>
    /\ loads[1].decoded
    /\ IF env.detached THEN Len(loads) = 2 /\ loads[2].decoded
       ELSE uw.called /\ uw.res.rv = 0

\* C15: a Verify run with an explicit public key calls crypto_check at
\* most once, exactly once when the key and the signature are well
\* formed, and with the key of the file given; when the call returns
\* invalid the run fails and writes nothing; the keyring is never opened
\* or scanned.
C15_NoFallback ==
    ExplicitDone =>
        /\ ~scan.entered
        /\ scan.dir = "none"
        /\ scan.opened = <<>>
        /\ Len(checks) = IF Checkable THEN 1 ELSE 0
        /\ checks # <<>> =>
              /\ checks[1].pk
                   = b64_decode(SubSeq(env.keyfile.data, 1, B64_KEY_SIZE),
                                B64_KEY_SIZE)
              /\ checks[1].res # 0 => (rv # 0 /\ out = <<>> /\ ident = <<>>)

\* a run with the key of another signer made one call and failed
C15_Witness ==
    /\ ExplicitDone
    /\ env.keyfile = File(KeyText(PK2))
    /\ Len(checks) = 1
    /\ checks[1].res # 0
    /\ rv # 0

====
